---- MODULE Spec2Model ----
(***************************************************************************)
(* GumV8Platform (bindings/gumjs/gumv8platform.cpp): the bridge between    *)
(* the V8 platform contract and the host script scheduler.                 *)
(*                                                                         *)
(* Threads of the model: any number of caller threads issuing dispatch     *)
(* calls, the worker threads of the scheduler's thread pool, the single    *)
(* JS thread with its event loop (job queue and timers), the threads that  *)
(* call the bundle getters, and the thread that runs the destructor.       *)
(*                                                                         *)
(* Units.  The host clock g_get_monotonic_time() counts microseconds.      *)
(* MonotonicallyIncreasingTime() returns seconds as a double; the model    *)
(* keeps the same value exactly, as a count of 1/60000 s ("ticks60k"), so  *)
(* that both x/1000.0 and 1.0/60.0 are integers: one millisecond is 60     *)
(* ticks60k and 1/60 s is 1000 ticks60k.                                   *)
(***************************************************************************)
EXTENDS Integers, Sequences, FiniteSets, TLC

\* ---- bounds of the model ------------------------------------------------
MaxTasks == 2
MaxTicks == 2
MaxBundles == 5
MaxCallers == 2

\* ---- program constants --------------------------------------------------
UsecPerMsec == 1000
MsecPerSec == 1000
IdleRate == 60
\* GLib's default priority for an event source.
G_PRIORITY_DEFAULT == 0

\* Host clock increment (microseconds) between observable steps: three
\* quarters of a millisecond, so that readings fall between whole
\* milliseconds.
ClockStep == (3 * UsecPerMsec) \div 4
\* Ticks of 1/60000 s in one second.
TicksPerSec == MsecPerSec * IdleRate
\* delay_in_seconds arguments, written in microseconds.
Delays == {0, 1900}
\* g_get_monotonic_time () at construction.
StartTimes == {1300}

VARIABLES
  disposing,
  objc_bundle,
  java_bundle,
  runtime_bundle,
  debug_bundle,
  scheduler,
  start_time,
  array_buffer_allocator,
  isolate,
  v8,
  now,
  tasks,
  jsQueue,
  lockOwner,
  bundles,
  returned,
  compiling,
  tdpc,
  halt

vars == <<disposing, objc_bundle, java_bundle, runtime_bundle, debug_bundle,
          scheduler, start_time, array_buffer_allocator, isolate, v8, now,
          tasks, jsQueue, lockOwner, bundles, returned, compiling, tdpc,
          halt>>

platformVars == <<disposing, scheduler, start_time, array_buffer_allocator,
                  isolate, v8, tdpc>>
bundleVars == <<objc_bundle, java_bundle, runtime_bundle, debug_bundle,
                bundles, returned, compiling>>

NULL == 0
Ids == DOMAIN tasks

\* C integer division: truncation toward zero.
CDiv(a, b) == IF a >= 0 THEN a \div b ELSE -((-a) \div b)

\* ---- GumV8TaskRequest ---------------------------------------------------
\* A dispatched task and, when one is created, its request.
\*   kind     which dispatch operation received the task
\*   st       "checked"  background dispatch read disposing = false and has
\*                       not yet created the request
\*            "queued"   request handed to the scheduler or to a timer
\*            "running"  inside task->Run ()
\*            "done"     Run returned and the task was deleted
\*            "lost"     the job was dropped by a released scheduler
\*            "rejected" the dispatch aborted at g_assert
\*   isolate  request->isolate ("null" or "isolate")
\*   request  "none" | "live" | "freed"
\*   on       "none" | "pool" | "js" | "timer" (where the request was put)
\*   armed    the timer source is attached
\*   priority the priority of the event source that carries the request
\*   runs     how many times task->Run was entered
\*   deleted  how many times the task was deleted
\*   locked   whether the running thread held the isolate's Locker in Run
\*   subTime, fireTime   the host clock at submission and when Run was
\*            entered (kept for delayed and idle tasks; 0 and -1 otherwise)
GumV8TaskRequest(k, iso, t) ==
  [kind |-> k, st |-> "queued", isolate |-> iso, request |-> "live",
   on |-> "none", armed |-> FALSE, priority |-> G_PRIORITY_DEFAULT,
   ranOn |-> "none", runs |-> 0,
   deleted |-> 0, locked |-> FALSE, subDisposing |-> disposing,
   subTime |-> t, delay |-> 0, expiry |-> 0, fireTime |-> -1,
   deadline |-> -1]

\* ---- clock ----------------------------------------------------------------
\* Faulty variant: the subtraction the wrong way round.
MonotonicReversed == CDiv(start_time - now, UsecPerMsec)
\* delta / G_GINT64_CONSTANT (1000): whole milliseconds since start_time.
MonotonicMsec == CDiv(now - start_time, UsecPerMsec)

\* ((double) msec) / 1000.0, in ticks60k.
MonotonicallyIncreasingTime == (MonotonicMsec * TicksPerSec) \div MsecPerSec

\* The host clock advances (g_get_monotonic_time never goes back).
Tick ==
  /\ halt = "no"
  /\ now + ClockStep <= start_time + MaxTicks * ClockStep
  /\ now' = now + ClockStep
  /\ UNCHANGED <<platformVars, bundleVars, tasks, jsQueue, lockOwner, halt>>

\* ---- scheduler (gumscriptscheduler) -----------------------------------------
\* gum_script_scheduler_push_job_on_thread_pool: the job waits for a free
\* worker; workers take jobs in any order.
PushJobOnThreadPool(r) == [r EXCEPT !.st = "queued", !.on = "pool"]

\* gum_script_scheduler_push_job_on_js_thread: an event source of the given
\* priority attached to the JS thread's event loop, which dispatches the
\* more urgent (numerically lower) priority first and sources of one
\* priority in the order they were attached.
PushJobOnJsThread(q, priority, t) ==
  LET ahead == Cardinality({i \in DOMAIN q : tasks[q[i]].priority <= priority})
  IN SubSeq(q, 1, ahead) \o <<t>> \o SubSeq(q, ahead + 1, Len(q))

\* V8 may call into the platform between V8::InitializePlatform and
\* V8::ShutdownPlatform, while the process runs.
Callable == halt = "no" /\ v8 = "initialized" /\ Len(tasks) < MaxTasks

\* The isolates V8 passes to the foreground dispatch operations.
ForegroundIsolates == {"isolate"}

\* ---- dispatch -------------------------------------------------------------
\* Faulty variant: the test of disposing left out.
BackgroundNeverInline == FALSE
\* if (disposing) at the head of CallOnBackgroundThread.
BackgroundRunsInline == disposing

\* task->Run (); delete task; on the calling thread, no request.
RunInline(r) ==
  [r EXCEPT !.st = "done", !.request = "none", !.ranOn = "caller",
            !.runs = @ + 1, !.deleted = @ + 1]

\* CallOnBackgroundThread up to the test of disposing; with disposing set
\* the whole call.
CallOnBackgroundThread ==
  /\ Callable
  /\ LET r == GumV8TaskRequest("bg", "null", 0) IN
       tasks' = Append(tasks,
                  IF BackgroundRunsInline
                  THEN RunInline(r)
                  ELSE [r EXCEPT !.st = "checked", !.request = "none"])
  /\ UNCHANGED <<platformVars, bundleVars, now, jsQueue, lockOwner, halt>>

\* The rest of CallOnBackgroundThread: new GumV8TaskRequest and the push.
\* Pushing through a scheduler pointer that teardown has already released
\* is a use after free: the job may still get queued, may be dropped, or
\* the process may crash.
CallOnBackgroundThreadPush(t) ==
  /\ halt = "no"
  /\ t \in Ids
  /\ tasks[t].st = "checked"
  /\ \/ /\ scheduler = "live"
        /\ tasks' = [tasks EXCEPT ![t] =
                       PushJobOnThreadPool([@ EXCEPT !.request = "live"])]
        /\ halt' = halt
     \/ /\ scheduler = "released"
        /\ tasks' = [tasks EXCEPT ![t] =
                       PushJobOnThreadPool([@ EXCEPT !.request = "live"])]
        /\ halt' = halt
     \/ /\ scheduler = "released"
        /\ tasks' = [tasks EXCEPT ![t] =
                       [@ EXCEPT !.request = "live", !.st = "lost"]]
        /\ halt' = halt
     \/ /\ scheduler = "released"
        /\ tasks' = [tasks EXCEPT ![t] =
                       [@ EXCEPT !.request = "live", !.st = "lost"]]
        /\ halt' = "crash"
  /\ UNCHANGED <<platformVars, bundleVars, now, jsQueue, lockOwner>>

\* Faulty variant: the assertion left out.
AssertNeverFails == FALSE
\* g_assert (!disposing) at the head of the foreground dispatch operations.
AssertFails == disposing

\* The task of a dispatch that stopped at the assertion.
Rejected(r) == [r EXCEPT !.st = "rejected", !.request = "none"]

\* Faulty variant: the request goes to the thread pool.
CallOnForegroundThreadToPool(for_isolate) ==
  /\ Callable
  /\ LET r == GumV8TaskRequest("fg", for_isolate, 0) IN
       IF AssertFails
       THEN /\ tasks' = Append(tasks, Rejected(r))
            /\ halt' = "assert"
            /\ UNCHANGED jsQueue
       ELSE /\ tasks' = Append(tasks, PushJobOnThreadPool(r))
            /\ UNCHANGED <<jsQueue, halt>>
  /\ UNCHANGED <<platformVars, bundleVars, now, lockOwner>>

\* CallOnForegroundThread: assert, new request, push to the JS thread.
CallOnForegroundThread(for_isolate) ==
  /\ Callable
  /\ LET r == GumV8TaskRequest("fg", for_isolate, 0) IN
       IF AssertFails
       THEN /\ tasks' = Append(tasks, Rejected(r))
            /\ halt' = "assert"
            /\ UNCHANGED jsQueue
       ELSE /\ tasks' = Append(tasks, [r EXCEPT !.on = "js"])
            /\ jsQueue' = PushJobOnJsThread(jsQueue, r.priority, Len(tasks) + 1)
            /\ UNCHANGED halt
  /\ UNCHANGED <<platformVars, bundleVars, now, lockOwner>>

\* g_timeout_source_new (delay_in_seconds * 1000.0): the double is converted
\* to the guint interval in milliseconds by truncation.  The delay is given
\* here in microseconds.
TimeoutInterval(delay) == CDiv(delay, UsecPerMsec)

\* The timeout source expires interval milliseconds after its creation and
\* is dispatched by the JS thread's loop once the clock has reached that.
CallDelayedOnForegroundThread(for_isolate, delay) ==
  /\ Callable
  /\ LET r == GumV8TaskRequest("delayed", for_isolate, now) IN
       IF AssertFails
       THEN /\ tasks' = Append(tasks, [Rejected(r) EXCEPT !.delay = delay])
            /\ halt' = "assert"
       ELSE /\ tasks' = Append(tasks,
                 [r EXCEPT !.on = "timer", !.armed = TRUE, !.delay = delay,
                           !.expiry = now + TimeoutInterval(delay) * UsecPerMsec])
            /\ UNCHANGED halt
  /\ UNCHANGED <<platformVars, bundleVars, now, jsQueue, lockOwner>>

\* Faulty variant: the idle request made without its isolate, as the
\* background request is.
CallIdleOnForegroundThreadNoIsolate(for_isolate) ==
  /\ Callable
  /\ LET r == GumV8TaskRequest("idle", "null", now) IN
       IF AssertFails
       THEN /\ tasks' = Append(tasks, Rejected(r))
            /\ halt' = "assert"
            /\ UNCHANGED jsQueue
       ELSE /\ tasks' = Append(tasks, [r EXCEPT !.on = "js"])
            /\ jsQueue' = PushJobOnJsThread(jsQueue, r.priority, Len(tasks) + 1)
            /\ UNCHANGED halt
  /\ UNCHANGED <<platformVars, bundleVars, now, lockOwner>>

\* Faulty variant: the idle request pushed at a more urgent priority than
\* the foreground requests.
CallIdleOnForegroundThreadUrgent(for_isolate) ==
  /\ Callable
  /\ LET r == [GumV8TaskRequest("idle", for_isolate, now)
                 EXCEPT !.priority = G_PRIORITY_DEFAULT - 100] IN
       IF AssertFails
       THEN /\ tasks' = Append(tasks, Rejected(r))
            /\ halt' = "assert"
            /\ UNCHANGED jsQueue
       ELSE /\ tasks' = Append(tasks, [r EXCEPT !.on = "js"])
            /\ jsQueue' = PushJobOnJsThread(jsQueue, r.priority, Len(tasks) + 1)
            /\ UNCHANGED halt
  /\ UNCHANGED <<platformVars, bundleVars, now, lockOwner>>

\* CallIdleOnForegroundThread: assert, new request, push to the JS thread
\* at G_PRIORITY_DEFAULT.
CallIdleOnForegroundThread(for_isolate) ==
  /\ Callable
  /\ LET r == GumV8TaskRequest("idle", for_isolate, now) IN
       IF AssertFails
       THEN /\ tasks' = Append(tasks, Rejected(r))
            /\ halt' = "assert"
            /\ UNCHANGED jsQueue
       ELSE /\ tasks' = Append(tasks, [r EXCEPT !.on = "js"])
            /\ jsQueue' = PushJobOnJsThread(jsQueue, r.priority, Len(tasks) + 1)
            /\ UNCHANGED halt
  /\ UNCHANGED <<platformVars, bundleVars, now, lockOwner>>

\* ---- dispatch handlers ----------------------------------------------------
\* Locker locker (isolate): blocks until no other thread holds the isolate.
Locker(thr) == lockOwner = "none" /\ lockOwner' = thr

\* The Locker, if one was constructed, goes out of scope.
Unlocker(thr) == lockOwner' = IF lockOwner = thr THEN "none" ELSE lockOwner

\* Faulty variant: Run without the Locker.
HandleTaskRequestNoLocker(r, thr) == UNCHANGED lockOwner
\* if (isolate != nullptr) { Locker locker (isolate); ... } in
\* HandleTaskRequest.
HandleTaskRequestLocker(r, thr) ==
  IF r.isolate # "null" THEN Locker(thr) ELSE UNCHANGED lockOwner

\* request->task->Run () is entered on thread thr.
Run(r, thr) ==
  [r EXCEPT !.st = "running", !.ranOn = thr, !.runs = @ + 1,
            !.fireTime = IF r.kind \in {"delayed", "idle"} THEN now ELSE @,
            !.locked = (lockOwner' = thr)]

\* HandleTaskRequest from its entry to the call of Run.
HandleTaskRequest(t, thr) ==
  /\ HandleTaskRequestLocker(tasks[t], thr)
  /\ tasks' = [tasks EXCEPT ![t] = Run(@, thr)]

\* Faulty variant: the deadline taken from the clock at submission.
IdleDeadlineAtSubmission(r) ==
  (CDiv(r.subTime - start_time, UsecPerMsec) * TicksPerSec) \div MsecPerSec
    + TicksPerSec \div IdleRate
\* MonotonicallyIncreasingTime () + (1.0 / 60.0), in ticks60k.
IdleDeadline(r) == MonotonicallyIncreasingTime + TicksPerSec \div IdleRate

\* HandleIdleTaskRequest from its entry to the call of Run (deadline).
HandleIdleTaskRequest(t, thr) ==
  /\ Locker(thr)
  /\ tasks' = [tasks EXCEPT ![t] =
                 [Run(@, thr) EXCEPT !.deadline = IdleDeadline(tasks[t])]]

\* Faulty variant: the callback asks to be called again.
HandleDelayedTaskRequestRepeats == TRUE
\* The value HandleDelayedTaskRequest returns to the timeout source: TRUE
\* keeps the source attached for another interval, FALSE destroys it.
HandleDelayedTaskRequest == FALSE

\* Faulty variant: the handler returns without deleting the request.
HandleReturnKeepsRequest(t, thr) ==
  /\ tasks' = [tasks EXCEPT ![t] = [@ EXCEPT !.st = "done", !.armed = FALSE]]
  /\ Unlocker(thr)

\* Run has returned: delete request (and with it the task), leave the
\* Locker's scope; a timeout source is kept or destroyed as its callback
\* says.
HandleReturn(t, thr) ==
  /\ tasks' = [tasks EXCEPT ![t] =
       [@ EXCEPT !.st = "done", !.request = "freed", !.deleted = @ + 1,
                 !.armed = (@ /\ HandleDelayedTaskRequest),
                 !.expiry = IF tasks[t].armed /\ HandleDelayedTaskRequest
                            THEN @ + TimeoutInterval(tasks[t].delay) * UsecPerMsec
                            ELSE @]]
  /\ Unlocker(thr)

\* ---- thread pool workers --------------------------------------------------
PoolDispatch(t) ==
  /\ halt = "no"
  /\ t \in Ids
  /\ tasks[t].st = "queued"
  /\ tasks[t].on = "pool"
  /\ HandleTaskRequest(t, "pool")
  /\ UNCHANGED <<platformVars, bundleVars, now, jsQueue, halt>>

PoolReturn(t) ==
  /\ halt = "no"
  /\ t \in Ids
  /\ tasks[t].st = "running"
  /\ tasks[t].ranOn = "pool"
  /\ HandleReturn(t, "pool")
  /\ UNCHANGED <<platformVars, bundleVars, now, jsQueue, halt>>

\* ---- the JS thread ----------------------------------------------------------
JsBusy == \E u \in Ids : tasks[u].st = "running" /\ tasks[u].ranOn = "js"

\* The next job of the loop's queue, or a timeout source that has expired.
\* A source still attached after its callback ran is dispatched again.
JsReady(t) ==
  \/ /\ tasks[t].on = "js"
     /\ tasks[t].st = "queued"
     /\ jsQueue # <<>>
     /\ Head(jsQueue) = t
  \/ /\ tasks[t].on = "timer"
     /\ tasks[t].armed
     /\ tasks[t].st \in {"queued", "done"}
     /\ now >= tasks[t].expiry

\* The loop dispatches one job or timer: the handler runs up to Run.
\* Locking an isolate that teardown has disposed is a use after free: the
\* handler may go on as if it were alive, or the process may crash.
JsDispatch(t) ==
  /\ halt = "no"
  /\ t \in Ids
  /\ ~JsBusy
  /\ JsReady(t)
  /\ jsQueue' = IF tasks[t].on = "js" THEN Tail(jsQueue) ELSE jsQueue
  /\ \/ /\ tasks[t].kind = "idle"
        /\ HandleIdleTaskRequest(t, "js")
        /\ UNCHANGED halt
     \/ /\ tasks[t].kind # "idle"
        /\ HandleTaskRequest(t, "js")
        /\ UNCHANGED halt
     \/ /\ isolate = "disposed"
        /\ tasks[t].isolate # "null"
        /\ halt' = "crash"
        /\ UNCHANGED <<tasks, lockOwner>>
  /\ UNCHANGED <<platformVars, bundleVars, now>>

JsReturn(t) ==
  /\ halt = "no"
  /\ t \in Ids
  /\ tasks[t].st = "running"
  /\ tasks[t].ranOn = "js"
  /\ HandleReturn(t, "js")
  /\ UNCHANGED <<platformVars, bundleVars, now, jsQueue, halt>>

\* ---- capability bundles ---------------------------------------------------
\* gum_v8_bundle_new: a fresh bundle instance, named by its index.
gum_v8_bundle_new(cap) == Append(bundles, [cap |-> cap, frees |-> 0])

\* gum_v8_bundle_free.
gum_v8_bundle_free(bs, b) == [bs EXCEPT ![b].frees = @ + 1]

\* Faulty variant: the slot is never found filled.
BundleAlwaysAbsent(slot) == TRUE
\* if (objc_bundle == NULL), if (java_bundle == NULL).
BundleAbsent(slot) == slot = NULL

\* The first and the latest value a getter returned.
Remember(pair, b) == <<IF pair[1] = NULL THEN b ELSE pair[1], b>>

\* The Locker scope in which the script thread calls a bundle getter.
\* Faulty variant: the getter called with the isolate unlocked.
CallerWithoutLocker(thr) == UNCHANGED lockOwner
CallerLocker(thr) == Locker(thr)

\* Calls that have found the slot empty and not yet stored a bundle.
Compiling == compiling.objc + compiling.java

\* GetObjCBundle up to the test of the slot; with the slot filled, the
\* whole call.
GetObjCBundle ==
  /\ halt = "no"
  /\ tdpc = "alive"
  /\ IF BundleAbsent(objc_bundle)
     THEN /\ Compiling < MaxCallers
          /\ CallerLocker("caller")
          /\ compiling' = [compiling EXCEPT !.objc = @ + 1]
          /\ UNCHANGED returned
     ELSE /\ lockOwner = "none"
          /\ returned' = [returned EXCEPT !.objc = Remember(@, objc_bundle)]
          /\ UNCHANGED <<compiling, lockOwner>>
  /\ UNCHANGED <<platformVars, objc_bundle, java_bundle, runtime_bundle,
                 debug_bundle, bundles, now, tasks, jsQueue, halt>>

\* objc_bundle = gum_v8_bundle_new (isolate, gum_v8_objc_modules); return.
GetObjCBundleStore ==
  /\ halt = "no"
  /\ compiling.objc > 0
  /\ Len(bundles) < MaxBundles
  /\ bundles' = gum_v8_bundle_new("objc")
  /\ objc_bundle' = Len(bundles) + 1
  /\ returned' = [returned EXCEPT !.objc = Remember(@, objc_bundle')]
  /\ compiling' = [compiling EXCEPT !.objc = @ - 1]
  /\ Unlocker("caller")
  /\ UNCHANGED <<platformVars, java_bundle, runtime_bundle, debug_bundle,
                 now, tasks, jsQueue, halt>>

\* GetJavaBundle up to the test of the slot; with the slot filled, the
\* whole call.
GetJavaBundle ==
  /\ halt = "no"
  /\ tdpc = "alive"
  /\ IF BundleAbsent(java_bundle)
     THEN /\ Compiling < MaxCallers
          /\ CallerLocker("caller")
          /\ compiling' = [compiling EXCEPT !.java = @ + 1]
          /\ UNCHANGED returned
     ELSE /\ lockOwner = "none"
          /\ returned' = [returned EXCEPT !.java = Remember(@, java_bundle)]
          /\ UNCHANGED <<compiling, lockOwner>>
  /\ UNCHANGED <<platformVars, objc_bundle, java_bundle, runtime_bundle,
                 debug_bundle, bundles, now, tasks, jsQueue, halt>>

\* java_bundle = gum_v8_bundle_new (isolate, gum_v8_java_modules); return.
GetJavaBundleStore ==
  /\ halt = "no"
  /\ compiling.java > 0
  /\ Len(bundles) < MaxBundles
  /\ bundles' = gum_v8_bundle_new("java")
  /\ java_bundle' = Len(bundles) + 1
  /\ returned' = [returned EXCEPT !.java = Remember(@, java_bundle')]
  /\ compiling' = [compiling EXCEPT !.java = @ - 1]
  /\ Unlocker("caller")
  /\ UNCHANGED <<platformVars, objc_bundle, runtime_bundle, debug_bundle,
                 now, tasks, jsQueue, halt>>

\* ---- ~GumV8Platform -------------------------------------------------------
\* Faulty variant: teardown starts without raising disposing.
TdStartsWithoutDisposing ==
  /\ halt = "no"
  /\ tdpc = "alive"
  /\ tdpc' = "bundles"
  /\ UNCHANGED <<disposing, scheduler, start_time, array_buffer_allocator,
                 isolate, v8, bundleVars, now, tasks, jsQueue, lockOwner, halt>>

\* disposing = true;
TdSetDisposing ==
  /\ halt = "no"
  /\ tdpc = "alive"
  /\ disposing' = TRUE
  /\ tdpc' = "bundles"
  /\ UNCHANGED <<scheduler, start_time, array_buffer_allocator, isolate, v8,
                 bundleVars, now, tasks, jsQueue, lockOwner, halt>>

\* Faulty variant: the destructor frees only the two bundles InitRuntime made.
BundlesToFreeCoreOnly ==
  <<debug_bundle, runtime_bundle>>

\* The bundles to free, in the destructor's order.
BundlesToFree ==
  (IF objc_bundle # NULL THEN <<objc_bundle>> ELSE <<>>)
    \o (IF java_bundle # NULL THEN <<java_bundle>> ELSE <<>>)
    \o <<debug_bundle, runtime_bundle>>

RECURSIVE FreeAll(_, _)
FreeAll(bs, list) ==
  IF list = <<>> THEN bs
  ELSE FreeAll(gum_v8_bundle_free(bs, Head(list)), Tail(list))

\* { Locker locker (isolate); ... the bundles are freed ...
TdFreeBundles ==
  /\ halt = "no"
  /\ tdpc = "bundles"
  /\ Locker("teardown")
  /\ bundles' = FreeAll(bundles, BundlesToFree)
  /\ tdpc' = "unlock"
  /\ UNCHANGED <<disposing, scheduler, start_time, array_buffer_allocator,
                 isolate, v8, objc_bundle, java_bundle, runtime_bundle,
                 debug_bundle, returned, compiling, now, tasks, jsQueue, halt>>

\* ... } the Locker's scope ends.
TdUnlock ==
  /\ halt = "no"
  /\ tdpc = "unlock"
  /\ Unlocker("teardown")
  /\ tdpc' = "isolate"
  /\ UNCHANGED <<disposing, scheduler, start_time, array_buffer_allocator,
                 isolate, v8, bundleVars, now, tasks, jsQueue, halt>>

\* isolate->Dispose ();
TdIsolateDispose ==
  /\ halt = "no"
  /\ tdpc = "isolate"
  /\ isolate' = "disposed"
  /\ tdpc' = "v8"
  /\ UNCHANGED <<disposing, scheduler, start_time, array_buffer_allocator,
                 v8, bundleVars, now, tasks, jsQueue, lockOwner, halt>>

\* V8::Dispose (); V8::ShutdownPlatform ();
TdV8Dispose ==
  /\ halt = "no"
  /\ tdpc = "v8"
  /\ v8' = "disposed"
  /\ tdpc' = "scheduler"
  /\ UNCHANGED <<disposing, scheduler, start_time, array_buffer_allocator,
                 isolate, bundleVars, now, tasks, jsQueue, lockOwner, halt>>

\* g_object_unref (scheduler);
TdSchedulerUnref ==
  /\ halt = "no"
  /\ tdpc = "scheduler"
  /\ scheduler' = "released"
  /\ tdpc' = "allocator"
  /\ UNCHANGED <<disposing, start_time, array_buffer_allocator, isolate, v8,
                 bundleVars, now, tasks, jsQueue, lockOwner, halt>>

\* Faulty variant: the destructor clears disposing on its way out.
TdDeleteAllocatorClearsDisposing ==
  /\ halt = "no"
  /\ tdpc = "allocator"
  /\ array_buffer_allocator' = "deleted"
  /\ disposing' = FALSE
  /\ tdpc' = "done"
  /\ UNCHANGED <<scheduler, start_time, isolate, v8, bundleVars,
                 now, tasks, jsQueue, lockOwner, halt>>

\* delete array_buffer_allocator;
TdDeleteAllocator ==
  /\ halt = "no"
  /\ tdpc = "allocator"
  /\ array_buffer_allocator' = "deleted"
  /\ tdpc' = "done"
  /\ UNCHANGED <<disposing, scheduler, start_time, isolate, v8, bundleVars,
                 now, tasks, jsQueue, lockOwner, halt>>

\* ---- specification --------------------------------------------------------
\* The state GumV8Platform's constructor and InitRuntime leave.
Init ==
  /\ disposing = FALSE
  /\ objc_bundle = NULL
  /\ java_bundle = NULL
  /\ runtime_bundle = 1
  /\ debug_bundle = 2
  /\ bundles = <<[cap |-> "runtime", frees |-> 0],
                 [cap |-> "debug", frees |-> 0]>>
  /\ returned = [objc |-> <<NULL, NULL>>, java |-> <<NULL, NULL>>]
  /\ compiling = [objc |-> 0, java |-> 0]
  /\ scheduler = "live"
  /\ start_time \in StartTimes
  /\ now = start_time
  /\ array_buffer_allocator = "live"
  /\ isolate = "live"
  /\ v8 = "initialized"
  /\ tasks = <<>>
  /\ jsQueue = <<>>
  /\ lockOwner = "none"
  /\ tdpc = "alive"
  /\ halt = "no"

\* Dispatch, the executors, the clock and teardown.
NextDispatch ==
  \/ Tick
  \/ CallOnBackgroundThread
  \/ \E t \in Ids : CallOnBackgroundThreadPush(t)
  \/ \E i \in ForegroundIsolates : CallOnForegroundThread(i)
  \/ \E i \in ForegroundIsolates, d \in Delays :
       CallDelayedOnForegroundThread(i, d)
  \/ \E i \in ForegroundIsolates : CallIdleOnForegroundThread(i)
  \/ \E t \in Ids : PoolDispatch(t)
  \/ \E t \in Ids : PoolReturn(t)
  \/ \E t \in Ids : JsDispatch(t)
  \/ \E t \in Ids : JsReturn(t)
  \/ TdSetDisposing
  \/ TdFreeBundles
  \/ TdUnlock
  \/ TdIsolateDispose
  \/ TdV8Dispose
  \/ TdSchedulerUnref
  \/ TdDeleteAllocator

\* The whole platform: dispatch, executors, clock and teardown, and the
\* bundle getters, called by a thread that holds the isolate's lock.
Next ==
  \/ NextDispatch
  \/ GetObjCBundle
  \/ GetObjCBundleStore
  \/ GetJavaBundle
  \/ GetJavaBundleStore

Spec == Init /\ [][Next]_vars

\* The platform with no optional bundle requested.
SpecDispatch == Init /\ [][NextDispatch]_vars

\* ---- properties -----------------------------------------------------------
VmAffine == {"fg", "delayed", "idle"}

\* Whole milliseconds in a span of microseconds, rounded down.
FloorMsec(usec) == usec \div UsecPerMsec

\* C1: a background dispatch issued while disposing is true has run its
\* task once, on the calling thread, before it returned; it created no
\* request and pushed nothing to the thread pool.
C1_BackgroundInlineWhenDisposing ==
  \A t \in Ids :
    (tasks[t].kind = "bg" /\ tasks[t].subDisposing) =>
      /\ tasks[t].st = "done"
      /\ tasks[t].ranOn = "caller"
      /\ tasks[t].runs = 1
      /\ tasks[t].request = "none"
      /\ tasks[t].on = "none"

\* A background dispatch was issued with disposing set, after another one
\* went to the pool.
C1_Witness ==
  \E t, u \in Ids :
    /\ tasks[t].kind = "bg" /\ tasks[t].subDisposing
    /\ tasks[u].kind = "bg" /\ tasks[u].on = "pool"

\* C2: of the background tasks submitted while teardown begins, none is
\* lost and none is run or deleted twice; once nothing is left to do every
\* one of them has run exactly once.
C2_BackgroundTasksRunExactlyOnce ==
  \A t \in Ids :
    tasks[t].kind = "bg" =>
      /\ tasks[t].st # "lost"
      /\ tasks[t].runs <= 1
      /\ tasks[t].deleted <= 1
      /\ (halt = "no" /\ tdpc = "done" /\ ~ENABLED NextDispatch) =>
           tasks[t].runs = 1

\* C3: a foreground, delayed or idle dispatch issued while disposing is
\* true aborts the process; no request exists for it, nothing was pushed
\* to the JS thread and no timer was attached.
C3_ForegroundAbortsWhenDisposing ==
  \A t \in Ids :
    (tasks[t].kind \in VmAffine /\ tasks[t].subDisposing) =>
      /\ halt = "assert"
      /\ tasks[t].st = "rejected"
      /\ tasks[t].request = "none"
      /\ tasks[t].on = "none"
      /\ ~tasks[t].armed
      /\ tasks[t].runs = 0
      /\ \A i \in DOMAIN jsQueue : jsQueue[i] # t

\* An idle dispatch was issued after teardown began, while an earlier
\* isolate-bound request was still waiting.
C3_Witness ==
  \E t, u \in Ids :
    /\ tasks[t].kind = "idle"
    /\ tasks[t].subDisposing
    /\ tasks[u].kind \in VmAffine
    /\ tasks[u].st = "queued"

\* C4: while a task whose request names an isolate is inside Run, the
\* thread running it holds that isolate's lock; a request with a null
\* isolate runs without its thread taking the lock.
C4_RunsUnderLocker ==
  \A t \in Ids :
    /\ (tasks[t].st = "running" /\ tasks[t].isolate # "null") =>
         lockOwner = tasks[t].ranOn
    /\ (tasks[t].st = "running" /\ tasks[t].isolate = "null") =>
         lockOwner # tasks[t].ranOn
    /\ tasks[t].runs > 0 => (tasks[t].locked <=> tasks[t].isolate # "null")

\* A task bound to the isolate runs on the JS thread under the lock while a
\* request without an isolate runs on the pool.
C4_Witness ==
  \E t, u \in Ids :
    /\ tasks[t].st = "running" /\ tasks[t].isolate # "null"
    /\ lockOwner = "js"
    /\ tasks[u].st = "running" /\ tasks[u].isolate = "null"
    /\ tasks[u].ranOn = "pool"

\* C5: foreground, delayed and idle tasks run on the JS thread only, and no
\* two of them are inside Run at the same time.
C5_VmAffineSerializedOnJsThread ==
  /\ \A t \in Ids :
       (tasks[t].kind \in VmAffine /\ tasks[t].runs > 0) =>
         tasks[t].ranOn = "js"
  /\ \A t, u \in Ids :
       (/\ tasks[t].kind \in VmAffine /\ tasks[t].st = "running"
        /\ tasks[u].kind \in VmAffine /\ tasks[u].st = "running") => t = u

\* One isolate-bound task has finished on the JS thread and another is
\* inside Run there.
C5_Witness ==
  \E t, u \in Ids :
    /\ t # u
    /\ tasks[t].kind \in VmAffine /\ tasks[t].st = "done"
    /\ tasks[u].kind \in VmAffine /\ tasks[u].st = "running"
    /\ tasks[u].ranOn = "js"

\* C6: the deadline an idle task receives is the platform clock when the
\* handler runs plus 1/60 s, and so is never below the platform clock at
\* submission.
C6_IdleDeadlineAtExecution ==
  \A t \in Ids :
    (tasks[t].kind = "idle" /\ tasks[t].runs > 0) =>
      /\ tasks[t].deadline * MsecPerSec * IdleRate =
           TicksPerSec
             * (FloorMsec(tasks[t].fireTime - start_time) * IdleRate
                  + MsecPerSec)
      /\ tasks[t].deadline * MsecPerSec >=
           FloorMsec(tasks[t].subTime - start_time) * TicksPerSec

\* An idle task ran more than a millisecond after it was submitted.
C6_Witness ==
  \E t \in Ids :
    /\ tasks[t].kind = "idle"
    /\ tasks[t].runs > 0
    /\ FloorMsec(tasks[t].fireTime - start_time)
         > FloorMsec(tasks[t].subTime - start_time)

\* C7: a delayed task is not run before its delay has passed since the
\* submission.
C7_DelayedNotBeforeDelay ==
  \A t \in Ids :
    (tasks[t].kind = "delayed" /\ tasks[t].runs > 0) =>
      tasks[t].fireTime - tasks[t].subTime >= tasks[t].delay

\* C8: a delayed task's timer runs it once: after the handler the request
\* is freed, the task has run and been deleted exactly once and the source
\* is no longer attached.
C8_DelayedRunsOnce ==
  \A t \in Ids :
    tasks[t].kind = "delayed" =>
      /\ tasks[t].runs <= 1
      /\ tasks[t].deleted <= 1
      /\ tasks[t].st = "done" =>
           /\ ~tasks[t].armed
           /\ tasks[t].runs = 1
           /\ tasks[t].deleted = 1
           /\ tasks[t].request = "freed"

\* A delayed task's handler has returned and the clock has moved on past
\* its expiry.
C8_Witness ==
  \E t \in Ids :
    /\ tasks[t].kind = "delayed"
    /\ tasks[t].st = "done"
    /\ now > tasks[t].fireTime

\* C9: the platform clock is 0 at construction, never goes back, and is the
\* elapsed host time cut to whole milliseconds, in seconds.
C9_ClockMonotonic ==
  /\ MonotonicallyIncreasingTime = 0
  /\ [][MonotonicallyIncreasingTime' >= MonotonicallyIncreasingTime]_vars
  /\ [](\E ms \in 0 .. MaxTicks + 1 :
          /\ ms * UsecPerMsec <= now - start_time
          /\ now - start_time < (ms + 1) * UsecPerMsec
          /\ MonotonicallyIncreasingTime * MsecPerSec = ms * TicksPerSec)

\* The clock is read one and a half milliseconds after construction.
C9_Witness ==
  /\ MonotonicMsec >= 1
  /\ (now - start_time) % UsecPerMsec # 0

\* Bundle instances compiled for a capability.
Compiled(cap) == {b \in DOMAIN bundles : bundles[b].cap = cap}

\* C10: each of the objc and java bundles is compiled at most once; every
\* request returns the instance the first request returned; a capability
\* never requested has an empty slot and no bundle; runtime and debug
\* exist from construction on.
C10_BundleMemoization ==
  /\ \A cap \in {"objc", "java"} :
       LET slot == IF cap = "objc" THEN objc_bundle ELSE java_bundle IN
         /\ Cardinality(Compiled(cap)) <= 1
         /\ returned[cap][2] = returned[cap][1]
         /\ returned[cap][1] # NULL =>
              /\ slot = returned[cap][1]
              /\ Compiled(cap) = {slot}
         /\ returned[cap][1] = NULL =>
              /\ slot = NULL
              /\ Compiled(cap) = {}
  /\ runtime_bundle # NULL /\ Compiled("runtime") = {runtime_bundle}
  /\ debug_bundle # NULL /\ Compiled("debug") = {debug_bundle}
  /\ runtime_bundle # debug_bundle
  /\ tdpc = "alive" =>
       /\ bundles[runtime_bundle].frees = 0
       /\ bundles[debug_bundle].frees = 0

\* The objc bundle has been requested and compiled, the java bundle never.
C10_Witness ==
  /\ returned["objc"][1] # NULL
  /\ returned["java"][1] = NULL
  /\ java_bundle = NULL

\* C11: teardown destroys every bundle that exists exactly once, inside its
\* one VM-lock scope: before that scope no bundle has been freed; when it
\* ends the runtime and debug bundles and every optional bundle that was
\* compiled have been freed once each, the lock still being teardown's;
\* a capability that was never requested has no instance to free, and no
\* instance is ever freed twice.
C11_TeardownFreesBundlesOnce ==
  /\ \A b \in DOMAIN bundles :
       /\ bundles[b].frees <= 1
       /\ (bundles[b].frees = 1) <=> (tdpc \notin {"alive", "bundles"})
  /\ bundles[runtime_bundle].cap = "runtime"
  /\ bundles[debug_bundle].cap = "debug"
  /\ (objc_bundle = NULL) <=> (Compiled("objc") = {})
  /\ (java_bundle = NULL) <=> (Compiled("java") = {})
  /\ (tdpc = "unlock") => (lockOwner = "teardown")

\* Teardown has left its lock scope with the ObjC bundle compiled and freed
\* and the Java bundle never requested.
C11_Witness ==
  /\ tdpc = "isolate"
  /\ objc_bundle # NULL
  /\ bundles[objc_bundle].frees = 1
  /\ java_bundle = NULL
  /\ Compiled("java") = {}

\* Some bundle has been freed / every bundle has been freed.
SomeBundleFreed == \E b \in DOMAIN bundles : bundles[b].frees > 0
AllBundlesFreed == \A b \in DOMAIN bundles : bundles[b].frees > 0

\* C12: teardown keeps its order. Nothing is torn down before disposing is
\* true; a bundle is freed only with disposing true and the VM instance and
\* the engine still up; the VM instance is disposed only after every bundle
\* is freed; the engine's global state is disposed only after the VM
\* instance; the scheduler binding is released only after the engine, and
\* the allocator is deleted only after the scheduler binding. So a
\* background dispatch arriving while the engine is still up and teardown
\* is under way reads disposing as true and runs with the allocator and the
\* scheduler binding live.
C12_TeardownOrder ==
  /\ SomeBundleFreed => (disposing /\ AllBundlesFreed)
  /\ (tdpc = "unlock") => (lockOwner = "teardown" /\ isolate = "live")
  /\ (isolate = "disposed") => (disposing /\ AllBundlesFreed)
  /\ (v8 = "disposed") => (isolate = "disposed")
  /\ (scheduler = "released") => (v8 = "disposed")
  /\ (array_buffer_allocator = "deleted") => (scheduler = "released")
  /\ (tdpc # "alive" /\ v8 = "initialized") =>
       /\ disposing
       /\ array_buffer_allocator = "live"
       /\ scheduler = "live"
  /\ \A t \in Ids :
       (tasks[t].kind = "bg" /\ tasks[t].ranOn = "caller") =>
         tasks[t].subDisposing

\* Teardown has finished, and a background dispatch that read disposing as
\* true ran its task in the caller.
C12_Witness ==
  /\ tdpc = "done"
  /\ array_buffer_allocator = "deleted"
  /\ \E t \in Ids :
       /\ tasks[t].kind = "bg"
       /\ tasks[t].subDisposing
       /\ tasks[t].ranOn = "caller"
       /\ tasks[t].st = "done"

\* The requests pushed to the JS thread's queue by foreground and idle
\* foreground dispatch: ids are given in submission order.
PushedToJs == {t \in Ids : tasks[t].on = "js"}

\* C13: the requests that foreground and idle foreground dispatch push to
\* the JS thread, all at the one priority, run on the JS thread in the
\* order they were submitted: a later one does not enter Run before every
\* earlier one has finished, and the queue holds them oldest first.
C13_ForegroundSubmissionOrder ==
  /\ \A t, u \in PushedToJs :
       (t < u /\ tasks[u].runs > 0) =>
         (tasks[t].st = "done" /\ tasks[u].ranOn = "js")
  /\ \A i, j \in DOMAIN jsQueue : (i < j) => (jsQueue[i] < jsQueue[j])

\* A foreground request and an idle request were submitted, in either
\* order, and the later one has entered Run.
C13_Witness ==
  \E t, u \in PushedToJs :
    /\ t < u
    /\ tasks[t].kind # tasks[u].kind
    /\ tasks[u].runs > 0

\* C14: every request is consumed once. A request exists from the dispatch
\* that created it; until its handler is called it is live and its task
\* has not run; the handler enters Run once, with the request still live;
\* when the handler has returned the task has run once and been deleted
\* once, the request is destroyed and sits in no queue and on no timer. A
\* task run by the synchronous fallback never had a request and was run
\* and deleted once by the caller. No task is run or deleted twice.
C14_RequestConsumedOnce ==
  \A t \in Ids :
    LET r == tasks[t] IN
      /\ r.runs <= 1
      /\ r.deleted <= 1
      /\ (r.st = "queued") =>
           (r.request = "live" /\ r.runs = 0 /\ r.deleted = 0)
      /\ (r.st = "running") =>
           (r.request = "live" /\ r.runs = 1 /\ r.deleted = 0)
      /\ (r.st = "done") =>
           /\ r.runs = 1
           /\ r.deleted = 1
           /\ r.request = (IF r.ranOn = "caller" THEN "none" ELSE "freed")
           /\ ~r.armed
           /\ \A i \in DOMAIN jsQueue : jsQueue[i] # t
      /\ (r.request = "freed") => (r.st = "done")
      /\ (r.request = "none") =>
           \/ r.st \in {"checked", "rejected"} /\ r.runs = 0 /\ r.deleted = 0
           \/ r.st = "done" /\ r.kind = "bg" /\ r.ranOn = "caller"

\* One task consumed through a queued request and one through the
\* synchronous fallback.
C14_Witness ==
  \E t, u \in Ids :
    /\ tasks[t].st = "done"
    /\ tasks[t].request = "freed"
    /\ tasks[t].kind \in VmAffine
    /\ tasks[u].st = "done"
    /\ tasks[u].ranOn = "caller"

\* C15: a task accepted by a dispatch operation is never cancelled, also
\* when teardown begins after its submission. In the form a finite run
\* decides: no accepted task is ever dropped, and the process never dies of
\* a fault while an accepted task is still waiting to run or is running.
C15_AcceptedTasksComplete ==
  \A t \in Ids :
    /\ tasks[t].st # "lost"
    /\ (halt = "crash") => (tasks[t].st \notin {"queued", "running"})

\* C16: disposing is false after construction, goes from false to true
\* once and is never set back; start_time never changes. The one step
\* that writes disposing is the destructor's first, which touches no task,
\* queue, lock or bundle: no dispatch operation, handler or bundle getter
\* writes either field.
C16_DisposingAndStartTimeWriteOnce ==
  /\ ~disposing
  /\ [][/\ disposing => disposing'
        /\ start_time' = start_time
        /\ (disposing' # disposing) =>
             /\ tdpc = "alive"
             /\ tdpc' = "bundles"
             /\ UNCHANGED <<tasks, jsQueue, lockOwner, bundleVars>>]_vars

\* Teardown has finished after a request was handled, a background task
\* ran in the caller and a bundle getter compiled its bundle.
C16_Witness ==
  /\ disposing
  /\ tdpc = "done"
  /\ start_time \in StartTimes
  /\ objc_bundle # NULL
  /\ \E t, u \in Ids :
       /\ tasks[t].st = "done"
       /\ tasks[t].request = "freed"
       /\ tasks[u].ranOn = "caller"

C18_BundleCompiledUnderLock ==
  /\ Compiling <= 1
  /\ (Compiling > 0) => (lockOwner = "caller")
  /\ \A cap \in {"objc", "java"} :
       LET slot == IF cap = "objc" THEN objc_bundle ELSE java_bundle IN
         /\ Cardinality(Compiled(cap)) <= 1
         /\ (slot # NULL) => (Compiled(cap) = {slot})
         /\ (compiling[cap] > 0) => (slot = NULL /\ Compiled(cap) = {})

\* A call of GetObjCBundle has found the slot empty and is compiling, the
\* lock held, while a request for the JS thread waits in the queue.
C18_Witness ==
  /\ compiling.objc = 1
  /\ objc_bundle = NULL
  /\ lockOwner = "caller"
  /\ \E t \in Ids : tasks[t].st = "queued" /\ tasks[t].on = "js"

\* C19: no VM-affine task enters Run, and no handler takes the isolate's
\* Locker for one, once teardown has disposed the isolate: a foreground or
\* idle request still queued, or a timer still pending, when the
\* destructor runs is never handled against the disposed isolate.
C19_NoRunOnDisposedIsolate ==
  [][\A t \in Ids :
       (tasks[t].kind \in VmAffine /\ tasks'[t].runs > tasks[t].runs) =>
         isolate = "live"]_vars

\* C20: a dispatch operation creates its request and pushes the job only
\* while disposing is false and the scheduler binding is unreleased: no
\* step of the destructor comes between a dispatch's read of disposing and
\* its push.
C20_NoPushOnceDisposing ==
  [][\A t \in DOMAIN tasks' :
       (/\ tasks'[t].request = "live"
        /\ (t \in Ids) => (tasks[t].request = "none")) =>
         (~disposing /\ scheduler = "live")]_vars

====
